---- MODULE Spec2Model ----
(***************************************************************************)
(* A model of debug_toolbar/panels/templates/panel.py: the TemplatesPanel   *)
(* that listens to django's template_rendered signal, stores one record    *)
(* per rendered template with a redacted, memoized text of every context   *)
(* layer, and builds the panel's report in generate_stats.                 *)
(*                                                                         *)
(* Python strings that the code inspects are sequences of pieces: a        *)
(* template name is the sequence of its path segments, a pretty-printed    *)
(* mapping the sequence of its tokens.  Python objects that the code only  *)
(* tests with isinstance are strings naming the kind of object.            *)
(***************************************************************************)
EXTENDS Integers, Sequences, FiniteSets, TLC

VARIABLES
    templates,      \* self.templates: the list of captured kwargs
    seen_contexts,  \* self.seen_contexts: composite key -> pformat output
    enabled,        \* debug_toolbar.panels.sql.tracking state.enabled, set by recording(v)
    connected,      \* whether _store_template_info is a receiver of template_rendered
    config,         \* self.toolbar.config['SHOW_TEMPLATE_CONTEXT']
    stats,          \* what generate_stats handed to record_stats, NoStats before
    rendered,       \* history: the template_rendered signals sent, with what each did
    formatted,      \* history: composite key -> number of times lines 98-133 ran for it
    last,           \* history: the last of the render events and generate_stats
                    \* calls, and the exception it raised
    request_contexts,   \* the RequestContext objects: template, the layer at
                        \* dicts[_processors_index], context_processors, _processors
    scope,          \* per RequestContext, where its with statement is: "unbound"
                    \* before the first one, "inside" its body, "left" or "raised"
                    \* after the body, "failed" when bind_template raised before
    bind_last       \* history: the last entry to or exit from bind_template

panel_vars == <<templates, seen_contexts, enabled, connected, config, stats, rendered,
                formatted, last>>

bind_vars == <<request_contexts, scope, bind_last>>

vars == <<templates, seen_contexts, enabled, connected, config, stats, rendered,
          formatted, last, request_contexts, scope, bind_last>>

\* The number of template_rendered signals of one request.
MaxEvents == 2

----------------------------------------------------------------------------
(* Values of context layers.                                               *)

\* The kinds of object a context layer holds in this model.
\*   HttpRequest            a django.http.HttpRequest
\*   list, tuple            a python list, a python tuple
\*   QuerySet, RawQuerySet  django lazy queries on the model auth.User
\*   int1, int2             the integers 1 and 2
\*   LazyDB                 an object whose __str__ runs a database query
\*   BadStr                 an object whose __str__ raises UnicodeEncodeError
\*   Broken                 an object whose __str__ raises ValueError
\*   BadRepr                an object whose __str__ works and whose __repr__
\*                          makes force_text(pformat(..)) raise UnicodeEncodeError
\*   Widget                 an object whose __str__ renders a template
Values ==
    {"HttpRequest", "list", "tuple", "QuerySet", "RawQuerySet", "int1", "int2",
     "LazyDB", "BadStr", "Broken", "BadRepr", "Widget"}

\* The keys of context layers, in the order sorted() gives them.
KeyOrder == <<"LANGUAGES", "sql_queries", "x">>

Keys == {KeyOrder[i] : i \in 1..Len(KeyOrder)}

\* Object identities, id(context_layer).  IdW is the identity of the layer a
\* Widget renders its template with.
Ids == {"d1", "d2"}

IdW == "d3"


\* A mapping layer (a dict: hasattr(layer, 'items')) with identity i.
Dict(i, its) == [mapping |-> TRUE, id |-> i, items |-> its]

\* A layer of context.dicts that has no 'items' attribute.
NotAMapping == [mapping |-> FALSE, id |-> "d0", items |-> <<>>]

\* The one-key dict {k: v}.
One(k, v) == [x \in {k} |-> v]

\* The two-key dict {"LANGUAGES": v, "x": w}.
TwoL(v, w) == [k \in {"LANGUAGES", "x"} |-> IF k = "x" THEN w ELSE v]

\* The two-key dict {"sql_queries": v, "x": w}.
Two(v, w) == [k \in {"sql_queries", "x"} |-> IF k = "x" THEN w ELSE v]

\* A render context: its layer stack and, for a RequestContext bound to a
\* template, its context_processors attribute ("None" when it has none).
Context(ds, cp) == [dicts |-> ds, context_processors |-> cp]

\* A python string as its pieces, and a template name that is no string.
Str(segs) == [isstr |-> TRUE, s |-> segs]

NoneName == [isstr |-> FALSE, s |-> <<>>]

----------------------------------------------------------------------------
(* Templates.  origin is "absent" (no attribute), "None", "unnamed" (an     *)
(* origin whose name is empty) or the origin's name; engine and backend    *)
(* are "absent", "None" or the name of an engine.                          *)

TplA ==
    [name |-> Str(<<"a.html">>), origin |-> "/t/a.html",
     engine |-> "django", backend |-> "absent"]

TplB ==
    [name |-> Str(<<"b.html">>), origin |-> "/t/b.html",
     engine |-> "absent", backend |-> "jinja2"]

TplToolbar ==
    [name |-> Str(<<"debug_toolbar/", "panels/", "templates.html">>),
     origin |-> "/dt/templates.html", engine |-> "django", backend |-> "absent"]

\* Template("...") built from a string: no name, no origin.
TplString ==
    [name |-> NoneName, origin |-> "None", engine |-> "django", backend |-> "absent"]

TplUnnamedOrigin ==
    [name |-> Str(<<"c.html">>), origin |-> "unnamed",
     engine |-> "None", backend |-> "jinja2"]

\* 'debug_toolbar/' inside the name, not at its start; no origin, no engine.
TplBare ==
    [name |-> Str(<<"app/", "debug_toolbar/", "d.html">>), origin |-> "absent",
     engine |-> "absent", backend |-> "absent"]

TplWidget ==
    [name |-> Str(<<"widgets/", "select_option.html">>), origin |-> "/w/select_option.html",
     engine |-> "django", backend |-> "absent"]

\* The render event of a Widget's __str__: its template with a one-layer context.
WidgetEvent ==
    [template |-> TplWidget,
     context |-> Context(<<Dict(IdW, One("x", "int1"))>>, "None")]

\* engine.dirs / backend.dirs
Dirs(engine) ==
    CASE engine = "django" -> <<"/srv/app//templates/", "/srv/lib/templates">>
      [] engine = "jinja2" -> <<"/srv/jinja/./t">>
      [] OTHER -> <<>>

\* os.path.normpath on the directories above.
normpath(path) ==
    CASE path = "/srv/app//templates/" -> "/srv/app/templates"
      [] path = "/srv/jinja/./t" -> "/srv/jinja/t"
      [] OTHER -> path

----------------------------------------------------------------------------
(* Helpers of the capture handler.                                         *)

\* str.startswith
StartsWith(s, prefix) ==
    /\ Len(s) >= Len(prefix)
    /\ SubSeq(s, 1, Len(prefix)) = prefix

ToolbarPrefix == <<"debug_toolbar/">>

\* Names equal to the prefix only, in place of startswith.
IsToolbarTemplateExact(template) ==
    /\ template.name.isstr
    /\ template.name.s = ToolbarPrefix

\* Lines 83-84: the template is one the toolbar renders itself.
IsToolbarTemplate(template) ==
    /\ template.name.isstr
    /\ StartsWith(template.name.s, ToolbarPrefix)

\* tuple(sorted(keys))
SortedKeys(keys) ==
    LET In(k) == k \in keys IN SelectSeq(KeyOrder, In)

\* Line 96: (id(context_layer), tuple(sorted(context_layer.keys())))
ContextLayerId(layer) == <<layer.id, SortedKeys(DOMAIN layer.items)>>

\* d[k] = v on a dict
SetItem(d, k, v) == [x \in DOMAIN d \cup {k} |-> IF x = k THEN v ELSE d[x]]

\* recording(v) of debug_toolbar.panels.sql.tracking: state.enabled = v
recording(st, v) == [st EXCEPT !.enabled = v]

IsHttpRequest(value) == value = "HttpRequest"

IsList(value) == value = "list"

IsTuple(value) == value = "tuple"

\* isinstance(value, QuerySet), without RawQuerySet.
IsQuerySetOnly(value) == value = "QuerySet"

\* Line 113: isinstance(value, (QuerySet, RawQuerySet))
IsQuerySet(value) == value \in {"QuerySet", "RawQuerySet"}

\* Lines 114-117: '<<%s of %s>>' % (class name in lower case, app_label.ModelName)
QuerySetPlaceholder(value) ==
    IF value = "QuerySet" THEN "<<queryset of auth.User>>"
    ELSE "<<rawqueryset of auth.User>>"

\* The placeholder strings the handler stores in place of a value.
Placeholders ==
    {"<<request>>", "<<sql_queries>>", "<<languages>>",
     "<<queryset of auth.User>>", "<<rawqueryset of auth.User>>",
     "<<triggers database query>>", "<<unicode encode error>>",
     "<<unhandled exception>>"}

\* repr() of a python string, as pieces.
StrRepr(s) == <<"'", s, "'">>

\* repr() of what a redacted layer holds: a placeholder string or a value.
Repr(x) ==
    CASE x \in Placeholders -> StrRepr(x)
      [] x = "int1" -> <<"1">>
      [] x = "int2" -> <<"2">>
      [] x = "list" -> <<"[", "...", "]">>
      [] x = "tuple" -> <<"(", "...", ")">>
      [] OTHER -> <<"<", x, " object>">>

RECURSIVE PformatItems(_, _)
\* The 'key': value items of pformat's output, keys sorted.
PformatItems(d, ks) ==
    IF ks = <<>> THEN <<>>
    ELSE StrRepr(Head(ks)) \o <<": ">> \o Repr(d[Head(ks)])
         \o (IF Len(ks) > 1 THEN <<", ">> ELSE <<>>)
         \o PformatItems(d, Tail(ks))

\* Line 133: force_text(pformat(temp_layer)); exc is the exception it raises.
Pformat(d) ==
    IF \E k \in DOMAIN d : d[k] = "BadRepr"
    THEN [exc |-> "UnicodeEncodeError", text |-> <<>>]
    ELSE [exc |-> "none",
          text |-> <<"{">> \o PformatItems(d, SortedKeys(DOMAIN d)) \o <<"}">>]

----------------------------------------------------------------------------
(* The capture handler.  A handler state st carries the panel's fields,    *)
(* the recording flag and the history of the signal being handled:         *)
(*   started    the number of calls of _store_template_info begun so far, *)
(*   attempts   the number of force_text(value) attempts made so far,      *)
(*   coercions  one entry per finished try statement of lines 119-131,     *)
(*   calls      one entry per finished call of _store_template_info.       *)
(* Each operator returns the state it leaves and, as exc, the exception it *)
(* raises ("none" when it returns).                                        *)

RECURSIVE Send(_, _)

\* Line 121: force_text(value).  A LazyDB value opens a cursor, which raises
\* SQLQueryTriggered while recording is off; a Widget renders its template,
\* which sends template_rendered, and what a receiver raises comes out of
\* __str__.
ForceText(st, value) ==
    CASE value = "LazyDB" ->
           [st |-> st, exc |-> IF st.enabled THEN "none" ELSE "SQLQueryTriggered"]
      [] value = "BadStr" -> [st |-> st, exc |-> "UnicodeEncodeError"]
      [] value = "Broken" -> [st |-> st, exc |-> "ValueError"]
      [] value = "Widget" -> Send(st, WidgetEvent)
      [] OTHER -> [st |-> st, exc |-> "none"]

\* An else clause that stores the text force_text returned.
StoredStringified(exc, value) ==
    CASE exc = "SQLQueryTriggered" -> "<<triggers database query>>"
      [] exc = "UnicodeEncodeError" -> "<<unicode encode error>>"
      [] exc # "none" -> "<<unhandled exception>>"
      [] OTHER -> "text"

\* Lines 122-129: what the except and else clauses store in temp_layer[key].
Stored(exc, value) ==
    CASE exc = "SQLQueryTriggered" -> "<<triggers database query>>"
      [] exc = "UnicodeEncodeError" -> "<<unicode encode error>>"
      [] exc # "none" -> "<<unhandled exception>>"
      [] OTHER -> value

\* History: one more finished try statement, with what it stored and the
\* flag it left.
Attempted(st, value, exc, v) ==
    [st EXCEPT !.attempts = @ + 1,
               !.coercions = Append(@, [value |-> value, exc |-> exc,
                                        stored |-> v, after |-> st.enabled])]

\* A try statement whose recording(True) is in the else clause only.
CoerceOutcomeElseOnly(r, value) ==
    [st |-> Attempted(IF r.exc = "none" THEN recording(r.st, TRUE) ELSE r.st,
                      value, r.exc, Stored(r.exc, value)),
     v  |-> Stored(r.exc, value)]

\* Lines 122-131: the except, else and finally clauses of the try statement,
\* given what force_text left and raised; v is what temp_layer[key] becomes.
CoerceOutcome(r, value) ==
    [st |-> Attempted(recording(r.st, TRUE), value, r.exc, Stored(r.exc, value)),
     v  |-> Stored(r.exc, value)]

\* Lines 119-131: the try statement of the last branch.
Coerce(st, value) == CoerceOutcome(ForceText(recording(st, FALSE), value), value)

\* Lines 103-131: the body of the loop over the layer's items.
RedactValue(st, key, value) ==
    IF IsHttpRequest(value) THEN [st |-> st, v |-> "<<request>>"]
    ELSE IF key = "sql_queries" /\ IsList(value) THEN [st |-> st, v |-> "<<sql_queries>>"]
    ELSE IF key = "LANGUAGES" /\ IsTuple(value) THEN [st |-> st, v |-> "<<languages>>"]
    ELSE IF IsQuerySet(value) THEN [st |-> st, v |-> QuerySetPlaceholder(value)]
    ELSE Coerce(st, value)

\* temp_layer[key] = v, in the state the branch left.
StoreItem(r, temp_layer, key) ==
    [st |-> r.st, temp_layer |-> SetItem(temp_layer, key, r.v)]

RECURSIVE RedactItems(_, _, _)
\* Lines 98-131: temp_layer built over the layer's items; acc is the state
\* and the temp_layer so far.  No two items of a layer of this model
\* interfere, so the items are taken in the keys' order.
RedactItems(acc, items, ks) ==
    IF ks = <<>> THEN acc
    ELSE RedactItems(
             StoreItem(RedactValue(acc.st, Head(ks), items[Head(ks)]),
                       acc.temp_layer, Head(ks)),
             items, Tail(ks))

\* History: lines 98-133 ran once more for the key id.
CountFormatted(st, id) ==
    [st EXCEPT !.formatted =
        SetItem(@, id, (IF id \in DOMAIN @ THEN @[id] ELSE 0) + 1)]

\* Lines 132-137: the pretty-printed text is cached unless pformat raised
\* UnicodeEncodeError.
CacheText(st, id, pf) ==
    IF pf.exc = "UnicodeEncodeError" THEN st
    ELSE [st EXCEPT !.seen_contexts = SetItem(@, id, pf.text)]

\* Lines 132-137, on the redacted layer r.temp_layer.
Prettify(r, id) == CacheText(CountFormatted(r.st, id), id, Pformat(r.temp_layer))

\* Lines 98-137: the layer's key is new: redact, pretty-print, cache.
FormatLayer(st, layer) ==
    Prettify(RedactItems([st |-> st, temp_layer |-> <<>>], layer.items,
                         SortedKeys(DOMAIN layer.items)),
             ContextLayerId(layer))

\* Lines 96-137: the layer is formatted when its key is not in the cache.
SeenOrFormat(st, layer) ==
    IF ContextLayerId(layer) \notin DOMAIN st.seen_contexts
    THEN FormatLayer(st, layer) ELSE st

RECURSIVE ContextList(_, _, _)

\* Line 138: context_list.append(self.seen_contexts[context_layer_id]), which
\* raises KeyError when the key is not in the cache; then the next layers.
AppendCached(st, id, rest, context_list) ==
    IF id \notin DOMAIN st.seen_contexts
    THEN [st |-> st, exc |-> "KeyError", context_list |-> context_list]
    ELSE ContextList(st, rest, Append(context_list, st.seen_contexts[id]))

\* The loop without the test of line 89: every layer gets a block.
ContextListNoSkip(st, dicts, context_list) ==
    IF dicts = <<>> THEN [st |-> st, exc |-> "none", context_list |-> context_list]
    ELSE AppendCached(SeenOrFormat(st, Head(dicts)), ContextLayerId(Head(dicts)),
                      Tail(dicts), context_list)

\* Lines 87-138: the loop over context.dicts.
ContextList(st, dicts, context_list) ==
    IF dicts = <<>> THEN [st |-> st, exc |-> "none", context_list |-> context_list]
    ELSE IF ~Head(dicts).mapping THEN ContextList(st, Tail(dicts), context_list)
    ELSE AppendCached(SeenOrFormat(st, Head(dicts)), ContextLayerId(Head(dicts)),
                      Tail(dicts), context_list)

\* History: a call of _store_template_info begins.
Entered(st) == [st EXCEPT !.started = @ + 1]

\* The history entry of one call: its place among the calls begun, the flag
\* before and after it, the number of coercion attempts made during it, how
\* it ended.
Called(before, after, template, exc) ==
    [after EXCEPT !.calls = Append(@,
        [template |-> template, start |-> before.started + 1,
         before |-> before.enabled, after |-> after.enabled,
         attempts |-> after.attempts - before.attempts, exc |-> exc])]

\* Lines 140-142: the record is appended unless the loop raised.
AppendRecord(st, ev, r) ==
    IF r.exc # "none" THEN [st |-> Called(st, r.st, ev.template, r.exc), exc |-> r.exc]
    ELSE [st |-> Called(st,
                        [r.st EXCEPT !.templates = Append(@,
                            [template |-> ev.template, context |-> r.context_list,
                             context_processors |-> ev.context.context_processors])],
                        ev.template, "none"),
          exc |-> "none"]

\* Lines 79-142: _store_template_info(sender, template=.., context=..)
StoreTemplateInfo(st, ev) ==
    IF IsToolbarTemplate(ev.template)
    THEN [st |-> Called(st, Entered(st), ev.template, "none"), exc |-> "none"]
    ELSE AppendRecord(st, ev, ContextList(Entered(st), ev.context.dicts, <<>>))

\* template_rendered.send(sender, template=.., context=..) from the patched
\* Template._render: the receiver runs when it is connected, and what it
\* raises comes out of send.
Send(st, ev) ==
    IF st.connected THEN StoreTemplateInfo(st, ev) ELSE [st |-> st, exc |-> "none"]

----------------------------------------------------------------------------
(* generate_stats                                                          *)

\* The origin read without the fallback of line 182.
OriginNameNoFallback(template) == template.origin

\* Lines 179-182: template.origin_name
OriginName(template) ==
    IF template.origin \notin {"absent", "None", "unnamed"}
    THEN template.origin ELSE "No origin"

RECURSIVE Join(_)
\* Line 187: '\n'.join(context_list)
Join(context_list) ==
    IF context_list = <<>> THEN <<>>
    ELSE Head(context_list)
         \o (IF Len(context_list) > 1 THEN <<"\n">> ELSE <<>>)
         \o Join(Tail(context_list))

\* An info that has the context text whatever SHOW_TEMPLATE_CONTEXT is.
InfoWithContext(template_data, show) ==
    [template |-> template_data.template,
     origin_name |-> OriginName(template_data.template),
     context |-> Join(template_data.context)]

\* Lines 176-188: the info of one captured record.
Info(template_data, show) ==
    IF show
    THEN [template |-> template_data.template,
          origin_name |-> OriginName(template_data.template),
          context |-> Join(template_data.context)]
    ELSE [template |-> template_data.template,
          origin_name |-> OriginName(template_data.template)]

\* Line 195: getattr(template, 'engine', None) or getattr(template, 'backend')
EngineBackend(template) ==
    IF template.engine \notin {"absent", "None"} THEN template.engine
    ELSE template.backend

\* The metadata read from the last record, in place of self.templates[0].
LastRecordMetadata(tpls) ==
    IF EngineBackend(tpls[Len(tpls)].template) \in {"absent", "None"}
    THEN [exc |-> "AttributeError"]
    ELSE [exc |-> "none",
          context_processors |-> tpls[Len(tpls)].context_processors,
          template_dirs |-> Dirs(EngineBackend(tpls[Len(tpls)].template))]

\* Lines 192-196: context_processors and template_dirs of the first record;
\* line 195 or 196 raises on a template without engine and backend.
FirstRecordMetadata(tpls) ==
    IF EngineBackend(tpls[1].template) \in {"absent", "None"}
    THEN [exc |-> "AttributeError"]
    ELSE [exc |-> "none",
          context_processors |-> tpls[1].context_processors,
          template_dirs |-> Dirs(EngineBackend(tpls[1].template))]

\* The first record read without the test of line 191.
SharedMetadataUnguarded(tpls) ==
    IF tpls = <<>> THEN [exc |-> "IndexError"] ELSE FirstRecordMetadata(tpls)

\* Lines 190-199
SharedMetadata(tpls) ==
    IF tpls # <<>> THEN FirstRecordMetadata(tpls)
    ELSE [exc |-> "none", context_processors |-> "None", template_dirs |-> <<>>]

\* Lines 201-205: the dict handed to record_stats.
Report(template_context, meta) ==
    IF meta.exc # "none" THEN [exc |-> meta.exc]
    ELSE [exc |-> "none",
          templates |-> template_context,
          template_dirs |->
              [i \in 1..Len(meta.template_dirs) |-> normpath(meta.template_dirs[i])],
          context_processors |-> meta.context_processors]

\* Lines 173-205: what generate_stats hands to record_stats, or the exception
\* it raises before.
StatsReport(tpls, show) ==
    Report([i \in 1..Len(tpls) |-> Info(tpls[i], show)], SharedMetadata(tpls))

----------------------------------------------------------------------------
(* RequestContext.bind_template, as patched by lines 36-62.  An attribute  *)
(* that is None or missing is <<>>, one that has the value v is <<v>>.     *)

\* template.engine.template_context_processors
EngineProcessors(engine) ==
    IF engine = "django" THEN <<"csrf", "i18n">> ELSE <<>>

\* Line 48: '%s.%s' % (processor.__module__, processor.__name__)
ProcessorName(processor) == <<"context_processors", ".", processor>>

\* Line 49: processor(self.request): the dict the processor returns, or the
\* exception it raises.
Processor(processor) ==
    CASE processor = "csrf" -> [exc |-> "none", context |-> One("csrf_token", "token")]
      [] processor = "i18n" -> [exc |-> "none", context |-> TwoL("tuple", "int1")]
      [] processor = "custom" -> [exc |-> "none", context |-> One("x", "int2")]
      [] processor = "failing" -> [exc |-> "AttributeError", context |-> <<>>]

\* dict.update
Update(d, e) ==
    [k \in DOMAIN d \cup DOMAIN e |-> IF k \in DOMAIN e THEN e[k] ELSE d[k]]

\* Lines 48-51: one turn of the loop, given what the processor did.
Processed(acc, processor, r) ==
    IF r.exc # "none" THEN [acc EXCEPT !.exc = r.exc]
    ELSE [acc EXCEPT
             !.c.context_processors =
                 <<Append(@[1], <<ProcessorName(processor), r.context>>)>>,
             !.updates = Update(@, r.context)]

RECURSIVE RunProcessors(_, _)
\* Lines 47-51: the loop over the processors, which an exception ends.
RunProcessors(acc, processors) ==
    IF processors = <<>> \/ acc.exc # "none" THEN acc
    ELSE RunProcessors(Processed(acc, Head(processors), Processor(Head(processors))),
                       Tail(processors))

\* Line 52: self.dicts[self._processors_index] = updates, when the loop ended.
SetProcessorsLayer(acc) ==
    IF acc.exc # "none" THEN [c |-> acc.c, exc |-> acc.exc]
    ELSE [c |-> [acc.c EXCEPT !.processors_layer = acc.updates], exc |-> "none"]

\* Lines 38-52: bind_template up to its yield.  Line 43 raises AttributeError
\* on a template without an engine, after line 41 set self.template.
BindTemplate(c, template) ==
    IF c.template # <<>> THEN [c |-> c, exc |-> "RuntimeError"]
    ELSE IF template.engine \in {"absent", "None"}
    THEN [c |-> [c EXCEPT !.template = <<template>>], exc |-> "AttributeError"]
    ELSE SetProcessorsLayer(
             RunProcessors([c |-> [c EXCEPT !.template = <<template>>,
                                            !.context_processors = << <<>> >>],
                            updates |-> <<>>, exc |-> "none"],
                           EngineProcessors(template.engine) \o c.processors))

\* A finally clause that leaves the processors layer as it is.
UnbindKeepLayer(c) == [c EXCEPT !.template = <<>>]

\* Lines 56-59: the finally clause.
Unbind(c) == [c EXCEPT !.template = <<>>, !.processors_layer = <<>>]

----------------------------------------------------------------------------
(* Inputs.                                                                 *)

\* The RequestContext objects, by what was passed as processors=.
RequestContextIds == {"rc1", "rc2", "rc3"}

\* RequestContext(request, processors=..): not bound, an empty processors
\* layer, no context_processors attribute.
NewRequestContext(c) ==
    [template |-> <<>>, processors_layer |-> <<>>, context_processors |-> <<>>,
     processors |-> CASE c = "rc1" -> <<>>
                      [] c = "rc2" -> <<"custom">>
                      [] c = "rc3" -> <<"failing">>]

\* The templates a RequestContext is bound to.
BindTemplates == {TplA, TplString, TplB}

\* The contexts of the capture specification: every kind of value under "x"
\* in one dict, the keys the handler treats by name, layers that are no
\* mappings, a layer whose two values both fail to coerce, and stacks of two
\* layers.
CaptureDicts ==
    {<<Dict("d1", One("x", v))>> : v \in Values}
    \cup {<<Dict("d1", One(k, v))>> : k \in {"sql_queries", "LANGUAGES"}, v \in {"list", "tuple"}}
    \cup {<<>>, <<NotAMapping>>, <<Dict("d1", <<>>)>>,
          <<Dict("d2", Two("list", "HttpRequest"))>>,
          <<Dict("d2", TwoL("Broken", "LazyDB"))>>,
          <<NotAMapping, Dict("d2", One("x", "int2"))>>,
          <<Dict("d1", One("x", "Widget")), Dict("d2", One("x", "Widget"))>>,
          <<Dict("d1", One("x", "int1")), Dict("d1", One("x", "int1"))>>,
          <<Dict("d2", One("x", "int2")), Dict("d1", One("x", "BadRepr"))>>}

CaptureEvents ==
    {[template |-> TplA, context |-> Context(ds, "None")] : ds \in CaptureDicts}
    \cup {[template |-> TplToolbar,
           context |-> Context(<<Dict("d2", One("x", "int1"))>>, "None")],
          [template |-> TplB,
           context |-> Context(<<Dict("d2", One("x", "int2"))>>,
                               "OrderedDict(csrf, debug)")],
          [template |-> TplString,
           context |-> Context(<<Dict("d1", One("x", "int1"))>>, "None")],
          [template |-> TplUnnamedOrigin,
           context |-> Context(<<Dict("d2", One("x", "Widget"))>>, "None")],
          [template |-> TplBare,
           context |-> Context(<<Dict("d1", One("x", "int2"))>>, "None")]}

\* The contexts and templates of the report specification.
ReportContexts ==
    {Context(<<Dict("d1", One("x", "int1"))>>, "None"),
     Context(<<Dict("d1", One("x", "int2"))>>, "OrderedDict(csrf, debug)"),
     Context(<<Dict("d2", One("x", "int2")), NotAMapping,
               Dict("d1", One("x", "int1"))>>, "None")}

Templates == {TplA, TplB, TplToolbar, TplString, TplUnnamedOrigin, TplBare}

ReportEvents == {[template |-> t, context |-> c] : t \in Templates, c \in ReportContexts}

----------------------------------------------------------------------------
(* The panel as a state machine.                                           *)

NoStats == [set |-> FALSE]

\* Lines 69-76: __init__, in a process whose recording flag is on and whose
\* signal has no receiver.
Init ==
    /\ templates = <<>>
    /\ seen_contexts = <<>>
    /\ enabled = TRUE
    /\ connected = FALSE
    /\ config \in BOOLEAN
    /\ stats = NoStats
    /\ rendered = <<>>
    /\ formatted = <<>>
    /\ last = [op |-> "init", exc |-> "none"]
    /\ request_contexts = [c \in RequestContextIds |-> NewRequestContext(c)]
    /\ scope = [c \in RequestContextIds |-> "unbound"]
    /\ bind_last = [op |-> "init"]

\* The same, with SHOW_TEMPLATE_CONTEXT at its default.
InitDefault ==
    /\ Init
    /\ config = TRUE

\* Lines 167-168: template_rendered.connect(self._store_template_info)
EnableInstrumentation ==
    /\ connected' = TRUE
    /\ UNCHANGED <<templates, seen_contexts, enabled, config, stats, rendered, formatted, last>>
    /\ UNCHANGED bind_vars

\* Lines 170-171: template_rendered.disconnect(self._store_template_info)
DisableInstrumentation ==
    /\ connected' = FALSE
    /\ UNCHANGED <<templates, seen_contexts, enabled, config, stats, rendered, formatted, last>>
    /\ UNCHANGED bind_vars

\* The panel's fields and the flag as a handler state.
PanelState ==
    [templates |-> templates, seen_contexts |-> seen_contexts,
     enabled |-> enabled, connected |-> connected,
     formatted |-> formatted, started |-> 0, attempts |-> 0,
     coercions |-> <<>>, calls |-> <<>>]

\* What the signal's receivers left.
Handled(r, ev) ==
    /\ templates' = r.st.templates
    /\ seen_contexts' = r.st.seen_contexts
    /\ enabled' = r.st.enabled
    /\ formatted' = r.st.formatted
    /\ rendered' = Append(rendered,
            [ev |-> ev, delivered |-> connected, exc |-> r.exc,
             calls |-> r.st.calls, coercions |-> r.st.coercions])
    /\ last' = [op |-> "render", exc |-> r.exc]

\* A template is rendered: lines 28-30 make Template._render send the signal.
TemplateRendered(ev) ==
    /\ Len(rendered) < MaxEvents
    /\ Handled(Send(PanelState, ev), ev)
    /\ UNCHANGED <<connected, config, stats>>
    /\ UNCHANGED bind_vars

\* Lines 201-205: self.record_stats(..), unless generate_stats raised before.
RecordStats(r) ==
    /\ stats' = IF r.exc = "none"
                THEN [set |-> TRUE, templates |-> r.templates,
                      template_dirs |-> r.template_dirs,
                      context_processors |-> r.context_processors]
                ELSE stats
    /\ last' = [op |-> "generate_stats", exc |-> r.exc]

\* Lines 173-205: generate_stats(request, response)
GenerateStats ==
    /\ RecordStats(StatsReport(templates, config))
    /\ UNCHANGED <<templates, seen_contexts, enabled, connected, config, rendered, formatted>>
    /\ UNCHANGED bind_vars

\* Lines 148-151: the title property, the pieces of
\* "Templates (%(num_templates)s rendered)" with len(self.templates) in place.
title == <<"Templates (", Len(templates), " rendered)">>

\* Lines 153-157: the nav_subtitle property: the name of the first record's
\* template, which is None for a template built from a string, or ''.
nav_subtitle ==
    IF templates # <<>> THEN templates[1].template.name ELSE Str(<<>>)

\* What entering 'with context.bind_template(template):' left: the body is
\* entered when bind_template reached its yield; a with statement that
\* raises RuntimeError leaves the one the context is in as it is.
BindEntered(c, r) ==
    /\ request_contexts' = [request_contexts EXCEPT ![c] = r.c]
    /\ scope' = [scope EXCEPT ![c] = CASE r.exc = "none" -> "inside"
                                       [] r.exc = "RuntimeError" -> @
                                       [] OTHER -> "failed"]
    /\ bind_last' = [op |-> "bind", ctx |-> c, exc |-> r.exc, was |-> scope[c],
                     before |-> request_contexts[c], after |-> r.c]

\* Lines 36-55: a with statement on context.bind_template(template) begins.
EnterBindTemplate(c, template) ==
    /\ BindEntered(c, BindTemplate(request_contexts[c], template))
    /\ UNCHANGED panel_vars

\* What leaving the with statement left; how is "left" when the body ended
\* and "raised" when an exception came out of it.
BindExited(c, after, how) ==
    /\ request_contexts' = [request_contexts EXCEPT ![c] = after]
    /\ scope' = [scope EXCEPT ![c] = how]
    /\ bind_last' = [op |-> "unbind", ctx |-> c,
                     exc |-> IF how = "raised" THEN "Exception" ELSE "none",
                     was |-> scope[c], before |-> request_contexts[c], after |-> after]

\* Lines 54-59: the body of the with statement ends or raises, and the
\* finally clause runs.
LeaveBindTemplate(c, how) ==
    /\ scope[c] = "inside"
    /\ BindExited(c, Unbind(request_contexts[c]), how)
    /\ UNCHANGED panel_vars

NextBind ==
    \/ \E c \in RequestContextIds, t \in BindTemplates : EnterBindTemplate(c, t)
    \/ \E c \in RequestContextIds, how \in {"left", "raised"} : LeaveBindTemplate(c, how)

\* The binding specification: the with statements on bind_template of three
\* RequestContext objects.
SpecBind == InitDefault /\ [][NextBind]_vars

Next ==
    \/ EnableInstrumentation
    \/ DisableInstrumentation
    \/ \E ev \in CaptureEvents : TemplateRendered(ev)
    \/ GenerateStats

\* The capture specification: every kind of context, under the toolbar's
\* default configuration, which shows the template context.
Spec == InitDefault /\ [][Next]_vars

NextReport ==
    \/ EnableInstrumentation
    \/ DisableInstrumentation
    \/ \E ev \in ReportEvents : TemplateRendered(ev)
    \/ GenerateStats

\* The report specification: every kind of template, with and without
\* SHOW_TEMPLATE_CONTEXT.
SpecReport == Init /\ [][NextReport]_vars

----------------------------------------------------------------------------
(* Properties of the capture handler.                                      *)

\* The signals that reached the handler with a template that is not the
\* toolbar's own.
Captured(i) ==
    /\ rendered[i].delivered
    /\ ~StartsWith(rendered[i].ev.template.name.s, <<"debug_toolbar/">>)

\* C1: the capture handler never propagates an exception: every render
\* event of a template that is not the toolbar's own, a layer whose
\* pretty-printed text cannot be encoded included, returns normally and has
\* its record in the panel's list.
C1_HandlerNeverRaises ==
    \A i \in 1..Len(rendered) :
        Captured(i) =>
            /\ rendered[i].exc = "none"
            /\ \E j \in 1..Len(templates) :
                   templates[j].template = rendered[i].ev.template

\* C2 as stated: whenever _store_template_info returns, the recording flag
\* is enabled, whatever it was before the call.
C2_EnabledAtEveryReturn ==
    \A i \in 1..Len(rendered) : \A j \in 1..Len(rendered[i].calls) :
        rendered[i].calls[j].exc = "none" => rendered[i].calls[j].after

\* C2, amended: every finished try statement of lines 119-131 leaves the
\* flag enabled, whatever force_text raised, and a lazy database value is
\* detected in each of them; a call of _store_template_info that made a
\* coercion attempt ends with the flag enabled, a call that made none leaves
\* the flag as it found it; between two signals the flag is enabled.
C2_FlagRestored ==
    /\ enabled
    /\ \A i \in 1..Len(rendered) :
        /\ \A j \in 1..Len(rendered[i].coercions) :
            /\ rendered[i].coercions[j].after
            /\ rendered[i].coercions[j].value = "LazyDB"
                   => rendered[i].coercions[j].exc = "SQLQueryTriggered"
        /\ \A j \in 1..Len(rendered[i].calls) :
            IF rendered[i].calls[j].attempts > 0
            THEN rendered[i].calls[j].after
            ELSE rendered[i].calls[j].after = rendered[i].calls[j].before

\* C2's case: a nested call entered with the flag off that coerced a value,
\* after a signal whose coercion raised SQLQueryTriggered, and a second
\* detection.
C2_Witness ==
    /\ Len(rendered) = 2
    /\ \E j \in 1..Len(rendered[1].coercions) :
           rendered[1].coercions[j].exc = "SQLQueryTriggered"
    /\ \E j \in 1..Len(rendered[2].calls) :
           /\ ~rendered[2].calls[j].before
           /\ rendered[2].calls[j].attempts > 0
           /\ rendered[2].calls[j].after

\* C3 as stated, its first part: a composite key is formatted at most once.
C3_FormattedAtMostOnce ==
    \A id \in DOMAIN formatted : formatted[id] <= 1

\* C4: two render events of one request, a.html with {"x": 1} then b.html
\* with {"x": 2}, whatever the identities of the two dicts: with context
\* display on, the two template infos of the report have non-empty context
\* texts that differ.
C4_ContextTextsDiffer ==
    ( /\ config
      /\ Len(rendered) = 2
      /\ rendered[1].delivered /\ rendered[2].delivered
      /\ rendered[1].ev.template = TplA
      /\ rendered[2].ev.template = TplB
      /\ \E i \in Ids : rendered[1].ev.context.dicts = <<Dict(i, One("x", "int1"))>>
      /\ \E i \in Ids : rendered[2].ev.context.dicts = <<Dict(i, One("x", "int2"))>>
      /\ stats.set
      /\ Len(stats.templates) = 2 )
    => /\ stats.templates[1].context # <<>>
       /\ stats.templates[2].context # <<>>
       /\ stats.templates[1].context # stats.templates[2].context

\* The finished calls of _store_template_info, as <<signal, call>> indices.
CallIndices ==
    UNION {{<<i, j>> : j \in 1..Len(rendered[i].calls)} : i \in 1..Len(rendered)}

\* The mapping layers of the signals that reached the handler.
DeliveredLayers ==
    UNION {{rendered[i].ev.context.dicts[j] : j \in 1..Len(rendered[i].ev.context.dicts)}
           : i \in {k \in 1..Len(rendered) : rendered[k].delivered}}
    \cup {WidgetEvent.context.dicts[1]}

\* C5: a render event outside the window between enable_instrumentation and
\* disable_instrumentation reaches no handler, appends nothing and caches
\* nothing; every render event inside it of a template that is not the
\* toolbar's own, nested ones included, appends exactly one record.
C5_OneRecordPerRenderInWindow ==
    /\ \A i \in 1..Len(rendered) : ~rendered[i].delivered => rendered[i].calls = <<>>
    /\ \A id \in DOMAIN seen_contexts :
           \E layer \in DeliveredLayers : layer.mapping /\ ContextLayerId(layer) = id
    /\ Len(templates) =
           Cardinality({p \in CallIndices :
               ~StartsWith(rendered[p[1]].calls[p[2]].template.name.s, <<"debug_toolbar/">>)})

\* C6: no captured record is of a template whose name starts with
\* 'debug_toolbar/', and a render event of such a template leaves the record
\* list, the context cache and the recording flag as they were.
C6_ToolbarTemplatesSkipped ==
    /\ [](\A i \in 1..Len(templates) :
             ~StartsWith(templates[i].template.name.s, <<"debug_toolbar/">>))
    /\ [][ ( /\ Len(rendered') = Len(rendered) + 1
             /\ StartsWith(rendered'[Len(rendered')].ev.template.name.s,
                           <<"debug_toolbar/">>) )
           => UNCHANGED <<templates, seen_contexts, enabled>> ]_vars

\* C6's case: the handler was called for a toolbar template while the panel
\* held a record.
C6_Witness ==
    /\ Len(rendered) = 2
    /\ rendered[2].delivered
    /\ rendered[2].calls # <<>>
    /\ rendered[2].ev.template = TplToolbar
    /\ Len(templates) = 1

\* The calls that reached line 142.
Appended(call) ==
    /\ call.exc = "none"
    /\ ~StartsWith(call.template.name.s, <<"debug_toolbar/">>)

RECURSIVE AppendedTemplates(_)
\* The templates of the calls that reached line 142, in the order the calls
\* finished.
AppendedTemplates(history) ==
    IF history = <<>> THEN <<>>
    ELSE LET calls == SelectSeq(history[Len(history)].calls, Appended)
         IN  AppendedTemplates(SubSeq(history, 1, Len(history) - 1))
             \o [k \in 1..Len(calls) |-> calls[k].template]

\* What line 142 and lines 175-188 give: the report has one entry per
\* captured record, in the order the calls of the handler appended them, each
\* with the origin name of its own template, 'No origin' when the template
\* has no origin or an origin without a name.
ReportOfRecords ==
    /\ stats.set
    /\ Len(stats.templates) = Len(templates)
    /\ [i \in 1..Len(templates) |-> templates[i].template] = AppendedTemplates(rendered)
    /\ \A i \in 1..Len(templates) :
        /\ stats.templates[i].template = templates[i].template
        /\ stats.templates[i].origin_name =
               IF templates[i].template.origin \in {"absent", "None", "unnamed"}
               THEN "No origin" ELSE templates[i].template.origin

\* The calls that appended a record began in the order they appended.
AppendedInEventOrder ==
    \A i \in 1..Len(rendered) : \A j, k \in 1..Len(rendered[i].calls) :
        ( /\ j < k
          /\ Appended(rendered[i].calls[j])
          /\ Appended(rendered[i].calls[k]) )
        => rendered[i].calls[j].start < rendered[i].calls[k].start

\* C7 as stated: the report generate_stats records has one entry per
\* captured record, in the order the render events occurred, each with the
\* origin name of its own template or 'No origin'.
C7_ReportInEventOrder ==
    (last.op = "generate_stats" /\ last.exc = "none") =>
        /\ ReportOfRecords
        /\ AppendedInEventOrder

\* C7, amended: the report generate_stats records has one entry per captured
\* record, in the order the records were appended, each with the origin name
\* of its own template or 'No origin'; that order is the order of the render
\* events but for a render that a value's text coercion starts inside the
\* handler, whose record precedes the record of the event being captured.
C7_ReportInCaptureOrder ==
    (last.op = "generate_stats" /\ last.exc = "none") =>
        /\ ReportOfRecords
        /\ \A i \in 1..Len(rendered) : \A j, k \in 1..Len(rendered[i].calls) :
            ( /\ j < k
              /\ Appended(rendered[i].calls[j])
              /\ Appended(rendered[i].calls[k])
              /\ rendered[i].calls[j].start > rendered[i].calls[k].start )
            => rendered[i].ev.context.dicts # <<>>
               /\ rendered[i].calls[k].attempts > 0

\* C7's case: a.html then b.html were rendered and the report was generated.
C7_Witness ==
    /\ last.op = "generate_stats"
    /\ stats.set
    /\ Len(stats.templates) = 2
    /\ stats.templates[1].origin_name = "/t/a.html"
    /\ stats.templates[2].origin_name = "/t/b.html"

\* The text block holds the item 'key': value, value given as its repr.
HasItem(text, key, repr) ==
    LET item == StrRepr(key) \o <<": ">> \o repr
    IN  \E p \in 1..(Len(text) - Len(item) + 1) :
            SubSeq(text, p, p + Len(item) - 1) = item

\* The last signal reached the handler, which appended its record.
LastCaptured ==
    /\ rendered # <<>>
    /\ Captured(Len(rendered))
    /\ rendered[Len(rendered)].exc = "none"

\* The mapping layers of the last signal's context, in the order of the stack.
LastLayers ==
    LET IsMapping(layer) == layer.mapping
    IN  SelectSeq(rendered[Len(rendered)].ev.context.dicts, IsMapping)

\* C8: after every render event, the text block appended for a layer that
\* holds an HttpRequest under a key holds '<<request>>' for that key and
\* nothing of the request's own text.
C8_RequestRedacted ==
    LastCaptured =>
        \A j \in 1..Len(LastLayers) : \A k \in DOMAIN LastLayers[j].items :
            LastLayers[j].items[k] = "HttpRequest" =>
                /\ HasItem(templates[Len(templates)].context[j], k, StrRepr("<<request>>"))
                /\ \A p \in 1..Len(templates[Len(templates)].context[j]) :
                       templates[Len(templates)].context[j][p] # "HttpRequest"

\* C9: the text block of a layer whose key sql_queries holds a sequence, a
\* list or a tuple, holds '<<sql_queries>>' in place of the value.
C9_SqlQueriesRedacted ==
    LastCaptured =>
        \A j \in 1..Len(LastLayers) :
            ( /\ "sql_queries" \in DOMAIN LastLayers[j].items
              /\ LastLayers[j].items["sql_queries"] \in {"list", "tuple"} )
            => HasItem(templates[Len(templates)].context[j], "sql_queries",
                       StrRepr("<<sql_queries>>"))

\* C10: with no captured record, generate_stats returns and records empty
\* templates, empty template_dirs and None for context_processors.
C10_EmptyReport ==
    (last.op = "generate_stats" /\ templates = <<>>) =>
        /\ last.exc = "none"
        /\ stats.set
        /\ stats.templates = <<>>
        /\ stats.template_dirs = <<>>
        /\ stats.context_processors = "None"

\* C10's case: generate_stats ran on a panel without records.
C10_Witness ==
    /\ last.op = "generate_stats"
    /\ templates = <<>>
    /\ stats.set

----------------------------------------------------------------------------
(* Properties of the report's shared metadata.                             *)

\* The first signal that reached the handler with a template that is not the
\* toolbar's own; 0 when there is none.
FirstCaptured ==
    IF \E i \in 1..Len(rendered) : Captured(i)
    THEN CHOOSE i \in 1..Len(rendered) :
             Captured(i) /\ \A j \in 1..(i - 1) : ~Captured(j)
    ELSE 0

\* The search directories of a template's engine when it has one, otherwise
\* of its backend, as normalised paths.
NormalisedDirsOf(template) ==
    IF template.engine = "django"
    THEN <<"/srv/app/templates", "/srv/lib/templates">>
    ELSE IF template.backend = "jinja2" THEN <<"/srv/jinja/t">>
    ELSE <<>>

\* C11: a report made from at least one record has the context_processors
\* captured with the first record (None when the first context had none)
\* and the directories of the first record's template's engine, or of its
\* backend when it has no engine; a later report of the same panel, made
\* after more records were captured, has the same two fields.
C11_SharedMetadataFromFirst ==
    /\ []( (stats.set /\ Len(stats.templates) > 0) =>
             /\ FirstCaptured > 0
             /\ templates[1].template = rendered[FirstCaptured].ev.template
             /\ stats.context_processors =
                    rendered[FirstCaptured].ev.context.context_processors
             /\ stats.template_dirs =
                    NormalisedDirsOf(rendered[FirstCaptured].ev.template) )
    /\ [][ (stats.set /\ Len(stats.templates) > 0 /\ stats'.set) =>
             /\ stats'.context_processors = stats.context_processors
             /\ stats'.template_dirs = stats.template_dirs ]_vars

\* C11's case: a report of two records whose first has no engine but a
\* backend, and whose second has an engine and other context processors.
C11_Witness ==
    /\ stats.set
    /\ Len(stats.templates) = 2
    /\ templates[1].template = TplUnnamedOrigin
    /\ templates[1].context_processors = "OrderedDict(csrf, debug)"
    /\ templates[2].template = TplA
    /\ templates[2].context_processors = "None"
    /\ stats.template_dirs = <<"/srv/jinja/t">>

----------------------------------------------------------------------------
(* Properties of the coercion branch.                                      *)

\* The try statements finished so far, as <<signal, attempt>> indices.
CoercionIndices ==
    UNION {{<<i, j>> : j \in 1..Len(rendered[i].coercions)} : i \in 1..Len(rendered)}

\* The value under the key is taken by none of the four branches of lines
\* 103-117.
ReachesCoercion(key, value) ==
    /\ value # "HttpRequest"
    /\ ~(key = "sql_queries" /\ value = "list")
    /\ ~(key = "LANGUAGES" /\ value = "tuple")
    /\ value \notin {"QuerySet", "RawQuerySet"}

\* Some cached text block holds the stored value under some key.
InSomeBlock(v) ==
    \E id \in DOMAIN seen_contexts : \E k \in Keys :
        HasItem(seen_contexts[id], k, Repr(v))

\* C12: every value that reaches the coercion branch has one of four
\* outcomes stored under its key: '<<triggers database query>>' when
\* force_text raised SQLQueryTriggered, '<<unicode encode error>>' when it
\* raised UnicodeEncodeError, '<<unhandled exception>>' when it raised
\* another Exception, the value itself when it returned; the stored outcome
\* is what the layer's text block shows, and the loop goes on to the next
\* key: the block of a layer has an item for every key of the layer.
C12_CoercionOutcomes ==
    /\ \A p \in CoercionIndices :
        LET c == rendered[p[1]].coercions[p[2]]
        IN  /\ \E k \in Keys : ReachesCoercion(k, c.value)
            /\ c.value = "LazyDB" => c.exc = "SQLQueryTriggered"
            /\ c.value = "BadStr" => c.exc = "UnicodeEncodeError"
            /\ c.value = "Broken" => c.exc = "ValueError"
            /\ c.stored =
                   CASE c.exc = "SQLQueryTriggered" -> "<<triggers database query>>"
                     [] c.exc = "UnicodeEncodeError" -> "<<unicode encode error>>"
                     [] c.exc = "none" -> c.value
                     [] OTHER -> "<<unhandled exception>>"
            /\ c.value # "BadRepr" => InSomeBlock(c.stored)
    /\ \A id \in DOMAIN seen_contexts : \A n \in 1..Len(id[2]) :
           \E q \in 1..(Len(seen_contexts[id]) - 3) :
               SubSeq(seen_contexts[id], q, q + 3) = StrRepr(id[2][n]) \o <<": ">>
    /\ FirstCaptured > 0 =>
           \A n \in 1..Len(rendered[FirstCaptured].ev.context.dicts) :
               LET layer == rendered[FirstCaptured].ev.context.dicts[n]
               IN  \A k \in DOMAIN layer.items :
                       (layer.mapping /\ ReachesCoercion(k, layer.items[k])) =>
                           \E j \in 1..Len(rendered[FirstCaptured].coercions) :
                               rendered[FirstCaptured].coercions[j].value = layer.items[k]

\* C12's case: one layer whose first value raised an unhandled exception and
\* whose second raised SQLQueryTriggered, both placeholders in its block,
\* after a signal whose values coerced and were kept.
C12_Witness ==
    /\ Len(rendered) = 2
    /\ rendered[1].delivered
    /\ rendered[1].ev.context.dicts = <<Dict("d1", One("x", "BadStr"))>>
    /\ rendered[1].coercions # <<>>
    /\ rendered[1].coercions[1].stored = "<<unicode encode error>>"
    /\ Len(rendered[2].coercions) = 2
    /\ rendered[2].coercions[1].exc = "ValueError"
    /\ rendered[2].coercions[2].exc = "SQLQueryTriggered"
    /\ <<"d2", <<"LANGUAGES", "x">>>> \in DOMAIN seen_contexts
    /\ seen_contexts[<<"d2", <<"LANGUAGES", "x">>>>] =
           <<"{", "'", "LANGUAGES", "'", ": ", "'", "<<unhandled exception>>", "'", ", ",
             "'", "x", "'", ": ", "'", "<<triggers database query>>", "'", "}">>

----------------------------------------------------------------------------
(* Properties of the template infos.                                       *)

RECURSIVE Lines(_, _)
\* The first n text blocks, one after the other with a newline between two.
Lines(blocks, n) ==
    IF n = 0 THEN <<>>
    ELSE IF n = 1 THEN blocks[1]
    ELSE Lines(blocks, n - 1) \o <<"\n">> \o blocks[n]

\* C13: with SHOW_TEMPLATE_CONTEXT set, each template info of the report
\* has a context field that is its record's text blocks joined with
\* newlines, in the order of the record's list; with the flag not set, no
\* template info has a context field.
C13_ContextFieldFollowsFlag ==
    stats.set =>
        \A i \in 1..Len(stats.templates) :
            IF config
            THEN /\ "context" \in DOMAIN stats.templates[i]
                 /\ stats.templates[i].context =
                        Lines(templates[i].context, Len(templates[i].context))
            ELSE "context" \notin DOMAIN stats.templates[i]

\* C13's case, flag set: a report whose first record has two text blocks.
C13_Witness ==
    /\ config
    /\ stats.set
    /\ Len(stats.templates) = 2
    /\ Len(templates[1].context) = 2
    /\ stats.templates[1].context =
           <<"{", "'", "x", "'", ": ", "2", "}", "\n", "{", "'", "x", "'", ": ", "1", "}">>
    /\ stats.templates[2].context = <<"{", "'", "x", "'", ": ", "1", "}">>

\* C13's case, flag not set: a report of two records.
C13_WitnessFlagOff ==
    /\ ~config
    /\ stats.set
    /\ Len(stats.templates) = 2
    /\ Len(templates[1].context) = 2

----------------------------------------------------------------------------
(* Properties of the panel's titles.                                       *)

\* The render events of templates that are not the toolbar's own which
\* reached the handler, nested ones included, as <<signal, call>> indices.
ObservedRenders ==
    {p \in CallIndices :
        ~StartsWith(rendered[p[1]].calls[p[2]].template.name.s, <<"debug_toolbar/">>)}

\* C14: in every state the count in title is the number of captured
\* records, which is the number of render events of templates not the
\* toolbar's own observed while enabled, and nav_subtitle is the name of
\* the first captured template or the empty string when there is no record;
\* once a first record exists no step changes nav_subtitle.
C14_TitleCountsObservedRenders ==
    /\ []( /\ title[2] = Len(templates)
           /\ title[2] = Cardinality(ObservedRenders)
           /\ nav_subtitle = IF templates = <<>> THEN Str(<<>>)
                             ELSE AppendedTemplates(rendered)[1].name )
    /\ [][ templates # <<>> => nav_subtitle' = nav_subtitle ]_vars

----------------------------------------------------------------------------
(* Properties of the QuerySet branch.                                      *)

\* The placeholder of a lazy query: its class name in lower case and its
\* model.
LazyQueryPlaceholder(value) ==
    CASE value = "QuerySet" -> "<<queryset of auth.User>>"
      [] value = "RawQuerySet" -> "<<rawqueryset of auth.User>>"

\* Every value of every mapping layer of the context is a lazy query.
OnlyLazyQueries(context) ==
    \A n \in 1..Len(context.dicts) : \A k \in DOMAIN context.dicts[n].items :
        context.dicts[n].items[k] \in {"QuerySet", "RawQuerySet"}

\* The step formats the layer: lines 98-133 run for its key.
Formats(layer) ==
    /\ ContextLayerId(layer) \in DOMAIN formatted'
    /\ \/ ContextLayerId(layer) \notin DOMAIN formatted
       \/ formatted'[ContextLayerId(layer)] > formatted[ContextLayerId(layer)]

\* C15: a QuerySet or RawQuerySet in a context layer is not executed: no
\* text coercion is attempted on it, a call whose layers hold lazy queries
\* only makes no coercion attempt and leaves the recording flag untouched,
\* and no text block holds a lazy query's own text; when the handler
\* formats a layer, the layer's block has the placeholder naming the kind
\* and the model in place of the value.
C15_LazyQueriesNotExecuted ==
    /\ []( /\ \A p \in CoercionIndices :
                  rendered[p[1]].coercions[p[2]].value \notin {"QuerySet", "RawQuerySet"}
           /\ \A i \in 1..Len(rendered) :
                  OnlyLazyQueries(rendered[i].ev.context) =>
                      \A j \in 1..Len(rendered[i].calls) :
                          /\ rendered[i].calls[j].attempts = 0
                          /\ rendered[i].calls[j].after = rendered[i].calls[j].before
           /\ \A id \in DOMAIN seen_contexts : \A q \in 1..Len(seen_contexts[id]) :
                  seen_contexts[id][q] \notin {"QuerySet", "RawQuerySet"} )
    /\ [][ (Len(rendered') = Len(rendered) + 1 /\ LastCaptured') =>
               \A j \in 1..Len(LastLayers') : \A k \in DOMAIN LastLayers'[j].items :
                   ( /\ LastLayers'[j].items[k] \in {"QuerySet", "RawQuerySet"}
                     /\ Formats(LastLayers'[j]) )
                   => HasItem(templates'[Len(templates')].context[j], k,
                              StrRepr(LazyQueryPlaceholder(LastLayers'[j].items[k]))) ]_vars

\* C15's case: a layer holding a RawQuerySet was captured after one holding
\* a value that was coerced.
C15_Witness ==
    /\ Len(rendered) = 2
    /\ rendered[1].delivered /\ rendered[2].delivered
    /\ rendered[1].ev.context.dicts = <<Dict("d2", TwoL("Broken", "LazyDB"))>>
    /\ rendered[2].ev.context.dicts = <<Dict("d1", One("x", "RawQuerySet"))>>
    /\ rendered[2].coercions = <<>>
    /\ Len(templates) = 2
    /\ templates[2].context =
           <<<<"{", "'", "x", "'", ": ", "'", "<<rawqueryset of auth.User>>", "'", "}">>>>

----------------------------------------------------------------------------
(* Properties of a record's context list.                                  *)

\* The render context of a call of the handler: the last call of a signal
\* to finish is the one for the signal's own event, the calls before it are
\* for the renders of Widget values.
CallContext(signal, j) ==
    IF j = Len(signal.calls) THEN signal.ev.context ELSE WidgetEvent.context

RECURSIVE AppendedContexts(_)
\* The render contexts of the calls that reached line 142, in the order the
\* calls finished.
AppendedContexts(history) ==
    IF history = <<>> THEN <<>>
    ELSE LET signal == history[Len(history)]
             Kept(j) == Appended(signal.calls[j])
             js == SelectSeq([j \in 1..Len(signal.calls) |-> j], Kept)
         IN  AppendedContexts(SubSeq(history, 1, Len(history) - 1))
             \o [n \in 1..Len(js) |-> CallContext(signal, js[n])]

\* The mapping layers of a context, in the order of its stack.
MappingLayers(context) ==
    LET IsMapping(layer) == layer.mapping
    IN  SelectSeq(context.dicts, IsMapping)

\* C16: the context list of every captured record has exactly one text
\* block per mapping layer of its render context, in the order of the
\* stack: its n-th block is the cached block of the n-th mapping layer's
\* key; a layer that is no mapping gives no block and no cache entry.
C16_OneBlockPerMappingLayer ==
    /\ Len(templates) = Len(AppendedContexts(rendered))
    /\ \A r \in 1..Len(templates) :
        /\ Len(templates[r].context) = Len(MappingLayers(AppendedContexts(rendered)[r]))
        /\ \A n \in 1..Len(templates[r].context) :
            /\ ContextLayerId(MappingLayers(AppendedContexts(rendered)[r])[n])
                   \in DOMAIN seen_contexts
            /\ templates[r].context[n] =
                   seen_contexts[ContextLayerId(MappingLayers(AppendedContexts(rendered)[r])[n])]
    /\ \A id \in DOMAIN seen_contexts :
        /\ id # ContextLayerId(NotAMapping)
        /\ \E layer \in DeliveredLayers : layer.mapping /\ ContextLayerId(layer) = id

\* C16's case: the record of a context whose stack is a mapping, a layer
\* that is no mapping and a second mapping has the blocks of the two
\* mappings, in that order, and the cache has their two keys.
C16_Witness ==
    /\ Len(rendered) = 1
    /\ rendered[1].ev.context.dicts =
           <<Dict("d2", One("x", "int2")), NotAMapping, Dict("d1", One("x", "int1"))>>
    /\ Len(templates) = 1
    /\ templates[1].context =
           << <<"{", "'", "x", "'", ": ", "2", "}">>, <<"{", "'", "x", "'", ": ", "1", "}">> >>
    /\ DOMAIN seen_contexts = {<<"d1", <<"x">>>>, <<"d2", <<"x">>>>}

----------------------------------------------------------------------------
(* Properties of bind_template.                                            *)

\* C17: entering bind_template on a context that is bound to a template
\* raises RuntimeError and leaves the context's template, processors layer
\* and context_processors as they were; whenever the body of the with
\* statement is left, by its end or by an exception raised in it, the
\* context's template is None and its processors layer is the empty mapping,
\* and entering bind_template on that context again does not raise
\* RuntimeError; a context is inside a with statement only while it is bound.
C17_BindUnbindProtocol ==
    /\ (bind_last.op = "bind" /\ bind_last.before.template # <<>>) =>
           /\ bind_last.exc = "RuntimeError"
           /\ bind_last.after.template = bind_last.before.template
           /\ bind_last.after.processors_layer = bind_last.before.processors_layer
           /\ bind_last.after.context_processors = bind_last.before.context_processors
           /\ request_contexts[bind_last.ctx] = bind_last.before
    /\ bind_last.op = "unbind" =>
           /\ bind_last.was = "inside"
           /\ bind_last.before.template # <<>>
           /\ request_contexts[bind_last.ctx].template = <<>>
           /\ request_contexts[bind_last.ctx].processors_layer = <<>>
    /\ \A c \in RequestContextIds :
           /\ scope[c] \in {"left", "raised"} =>
                  /\ request_contexts[c].template = <<>>
                  /\ request_contexts[c].processors_layer = <<>>
           /\ scope[c] = "inside" => request_contexts[c].template # <<>>
    /\ (bind_last.op = "bind" /\ bind_last.was \in {"left", "raised"}) =>
           /\ bind_last.before.template = <<>>
           /\ bind_last.exc # "RuntimeError"

\* C17's case: a context whose with statement was left by an exception is
\* bound again, with the layer its processors give, while a second context
\* that is bound was entered again and raised RuntimeError before.
C17_Witness ==
    /\ bind_last.op = "bind"
    /\ bind_last.ctx = "rc2"
    /\ bind_last.was = "raised"
    /\ bind_last.exc = "none"
    /\ scope["rc2"] = "inside"
    /\ request_contexts["rc2"].template = <<TplA>>
    /\ request_contexts["rc2"].processors_layer =
           [k \in {"csrf_token", "LANGUAGES", "x"} |->
               CASE k = "csrf_token" -> "token"
                 [] k = "LANGUAGES" -> "tuple"
                 [] k = "x" -> "int2"]
    /\ scope["rc1"] = "inside"
    /\ request_contexts["rc1"].template = <<TplString>>

\* C17's other case: entering bind_template on a bound context raised
\* RuntimeError.
C17_WitnessAlreadyBound ==
    /\ bind_last.op = "bind"
    /\ bind_last.exc = "RuntimeError"
    /\ bind_last.was = "inside"
    /\ bind_last.before.processors_layer # <<>>

\* A binding that raised before its yield, from a processor or from a
\* template without an engine, never entered the body of its with statement
\* and left the context bound to the template.
BindingFailedBeforeYield ==
    /\ bind_last.op = "bind"
    /\ bind_last.exc = "AttributeError"
    /\ bind_last.before.template = <<>>
    /\ request_contexts[bind_last.ctx].template # <<>>
    /\ scope[bind_last.ctx] = "failed"

====
